---------------------------- MODULE Spec2Model ----------------------------
(***************************************************************************)
(* Model of IdealGenericCameraModel.hpp: the ideal Geyer/Barreto/Mei       *)
(* generic camera model over owned and mapped parameter storage.            *)
(*                                                                         *)
(* Scalars are exact: a value <<n, d>> is the rational n/d in lowest terms  *)
(* with d > 0, and the three values with d = 0 are the non-finite results   *)
(* of floating division, <<1,0>> = +inf, <<-1,0>> = -inf, <<0,0>> = NaN.    *)
(* Rounding and the sign of zero are not modelled.                          *)
(***************************************************************************)
EXTENDS Integers, Sequences, FiniteSets, TLC

VARIABLES
    mem,    \* the content of each parameter buffer: nine scalars
    ref,    \* the buffer each model object reads and writes
    last,   \* the latest call: its arguments, the state before it, its result
    hist,   \* the earlier calls a property refers back to (see ResizeViewport, Assign)
    nops,   \* the number of mutating calls made so far
    input   \* the direction or pixel the caller passes to the pure functions

vars == <<mem, ref, last, hist, nops, input>>

(***************************************************************************)
(* Scalar arithmetic                                                        *)
(***************************************************************************)
Abs(n) == IF n < 0 THEN -n ELSE n

Sign(n) == IF n < 0 THEN -1 ELSE IF n > 0 THEN 1 ELSE 0

RECURSIVE GCD(_, _)
GCD(a, b) == IF b = 0 THEN a ELSE GCD(b, a % b)

\* the scalar n/d, in lowest terms; d = 0 gives +inf, -inf or NaN
Scalar(n, d) ==
    IF d = 0 THEN <<Sign(n), 0>>
    ELSE LET g == GCD(Abs(n), Abs(d))
             s == IF d < 0 THEN -1 ELSE 1
         IN  <<(s * n) \div g, Abs(d) \div g>>

Zero == <<0, 1>>
One == <<1, 1>>
NaN == <<0, 0>>
PInf == <<1, 0>>
NInf == <<-1, 0>>

Int2S(n) == <<n, 1>>

IsNaN(a) == a = NaN
Finite(a) == a[2] # 0
IsInf(a) == a[2] = 0 /\ a[1] # 0

Neg(a) == <<-a[1], a[2]>>

\* common factors are cancelled before multiplying
Mul(a, b) ==
    IF Finite(a) /\ Finite(b)
    THEN LET g1 == GCD(Abs(a[1]), b[2])
             g2 == GCD(Abs(b[1]), a[2])
         IN  Scalar((a[1] \div g1) * (b[1] \div g2), (a[2] \div g2) * (b[2] \div g1))
    ELSE Scalar(a[1] * b[1], a[2] * b[2])

Recip(a) == Scalar(a[2], a[1])

Div(a, b) == Mul(a, Recip(b))

Add(a, b) ==
    IF IsNaN(a) \/ IsNaN(b) THEN NaN
    ELSE IF IsInf(a) /\ IsInf(b) THEN (IF a = b THEN a ELSE NaN)
    ELSE IF IsInf(a) THEN a
    ELSE IF IsInf(b) THEN b
    ELSE LET g == GCD(a[2], b[2])
         IN  Scalar(a[1] * (b[2] \div g) + b[1] * (a[2] \div g),
                    (a[2] \div g) * b[2])

Sub(a, b) == Add(a, Neg(b))

\* a < b; every comparison with NaN is false
Less(a, b) ==
    IF IsNaN(a) \/ IsNaN(b) THEN FALSE
    ELSE IF IsInf(a) \/ IsInf(b) THEN a # b /\ (a = NInf \/ b = PInf)
    ELSE a[1] * b[2] < b[1] * a[2]

Leq(a, b) ==
    IF IsNaN(a) \/ IsNaN(b) THEN FALSE ELSE a = b \/ Less(a, b)

Greater(a, b) == Less(b, a)

Geq(a, b) == Leq(b, a)

\* mutant of StdMin: the larger of the two ratios
StdMax(a, b) == IF Less(a, b) THEN b ELSE a

\* std::min(a, b): (b < a) ? b : a
StdMin(a, b) == IF Less(b, a) THEN b ELSE a

RECURSIVE ISqrtFrom(_, _)
ISqrtFrom(n, k) == IF k * k >= n THEN k ELSE ISqrtFrom(n, k + 1)

\* least k with k*k >= n
ISqrt(n) == ISqrtFrom(n, 0)

IsSquareInt(n) == n >= 0 /\ (LET k == ISqrt(n) IN k * k = n)

\* the square root is a scalar of the model: a non-finite or negative
\* argument, or the square of a rational
HasScalarRoot(a) ==
    \/ ~Finite(a)
    \/ a[1] < 0
    \/ IsSquareInt(a[1]) /\ IsSquareInt(a[2])

\* sqrt(a) where HasScalarRoot(a)
Sqrt(a) ==
    IF IsNaN(a) \/ a = NInf THEN NaN
    ELSE IF a = PInf THEN PInf
    ELSE IF a[1] < 0 THEN NaN
    ELSE <<ISqrt(a[1]), ISqrt(a[2])>>


(***************************************************************************)
(* Parameter vector and named accessors                                     *)
(***************************************************************************)
IdealGenericCameraModelParameterCount == 9

NumParameters == IdealGenericCameraModelParameterCount

ParametersToOptimize == NumParameters - 4

\* data()[k], k counted from 0 as in the source
data(p, k) == p[k + 1]

fx(p) == data(p, 0)
fy(p) == data(p, 1)
u0(p) == data(p, 2)
v0(p) == data(p, 3)
epsilon(p) == data(p, 4)
width(p) == data(p, 5)
height(p) == data(p, 6)
r1(p) == data(p, 7)
r2(p) == data(p, 8)

\* data()[k] = v
setData(p, k, v) == [p EXCEPT ![k + 1] = v]

\* the nine-argument constructor
IdealGenericCameraModel(a, b, c, d, e, w, h, ri, ro) ==
    <<a, b, c, d, e, w, h, ri, ro>>

\* the constructor called with four arguments: the trailing ones default to 0
IdealGenericCameraModel4(a, b, c, d) ==
    IdealGenericCameraModel(a, b, c, d, Zero, Zero, Zero, Zero, Zero)

\* the default constructor
IdealGenericCameraModel0 == [k \in 1..NumParameters |-> Zero]

FiniteParams(p) == \A k \in 1..NumParameters : Finite(p[k])

(***************************************************************************)
(* Projection, unprojection, validity predicates, viewport                  *)
(***************************************************************************)
SquaredNorm(pt) ==
    Add(Add(Mul(pt[1], pt[1]), Mul(pt[2], pt[2])), Mul(pt[3], pt[3]))

\* tmp_pt.normalized(), for a point whose norm is a scalar of the model
normalized(pt) ==
    LET n == Sqrt(SquaredNorm(pt))
    IN  <<Div(pt[1], n), Div(pt[2], n), Div(pt[3], n)>>

\* mutant of forward: the point projected without being normalized
forwardUnnormalized(p, pt) ==
    LET den == Add(pt[3], epsilon(p))
        pp == <<Div(pt[1], den), Div(pt[2], den)>>
    IN  <<Add(Mul(fx(p), pp[1]), u0(p)), Add(Mul(fy(p), pp[2]), v0(p))>>

forward(p, pt) ==
    LET unit_pt == normalized(pt)
        den == Add(unit_pt[3], epsilon(p))
        pp == <<Div(unit_pt[1], den), Div(unit_pt[2], den)>>
    IN  <<Add(Mul(fx(p), pp[1]), u0(p)), Add(Mul(fy(p), pp[2]), v0(p))>>

\* mutant of inverse: 1 + eps^2 under the root in place of 1 - eps^2
inversePlus(p, x, y) ==
    LET pix_dist == <<Div(Sub(x, u0(p)), fx(p)), Div(Sub(y, v0(p)), fy(p))>>
        x2 == Mul(pix_dist[1], pix_dist[1])
        y2 == Mul(pix_dist[2], pix_dist[2])
        eps2 == Mul(epsilon(p), epsilon(p))
        rad == Add(One, Mul(Add(One, eps2), Add(x2, y2)))
        den == Add(Add(x2, y2), One)
    IN  IF HasScalarRoot(rad)
        THEN LET term == Div(Add(epsilon(p), Sqrt(rad)), den)
             IN  [rat |-> <<Mul(term, pix_dist[1]), Mul(term, pix_dist[2]),
                            Sub(term, epsilon(p))>>,
                  irr |-> <<Zero, Zero, Zero>>,
                  rad |-> rad]
        ELSE LET ta == Div(epsilon(p), den)
                 tb == Div(One, den)
             IN  [rat |-> <<Mul(ta, pix_dist[1]), Mul(ta, pix_dist[2]),
                            Sub(ta, epsilon(p))>>,
                  irr |-> <<Mul(tb, pix_dist[1]), Mul(tb, pix_dist[2]), tb>>,
                  rad |-> rad]

\* The returned point is rat + irr * sqrt(rad), componentwise.  When the
\* argument of sqrt has a root among the scalars, irr is zero; otherwise
\* the root is kept as the symbol sqrt(rad), known only by its square.
inverse(p, x, y) ==
    LET pix_dist == <<Div(Sub(x, u0(p)), fx(p)), Div(Sub(y, v0(p)), fy(p))>>
        x2 == Mul(pix_dist[1], pix_dist[1])
        y2 == Mul(pix_dist[2], pix_dist[2])
        eps2 == Mul(epsilon(p), epsilon(p))
        rad == Add(One, Mul(Sub(One, eps2), Add(x2, y2)))
        den == Add(Add(x2, y2), One)
    IN  IF HasScalarRoot(rad)
        THEN LET term == Div(Add(epsilon(p), Sqrt(rad)), den)
             IN  [rat |-> <<Mul(term, pix_dist[1]), Mul(term, pix_dist[2]),
                            Sub(term, epsilon(p))>>,
                  irr |-> <<Zero, Zero, Zero>>,
                  rad |-> rad]
        ELSE LET ta == Div(epsilon(p), den)
                 tb == Div(One, den)
             IN  [rat |-> <<Mul(ta, pix_dist[1]), Mul(ta, pix_dist[2]),
                            Sub(ta, epsilon(p))>>,
                  irr |-> <<Mul(tb, pix_dist[1]), Mul(tb, pix_dist[2]), tb>>,
                  rad |-> rad]

\* mutant of pixelValidSquare: the upper bounds taken inclusive
pixelValidSquareInclusive(p, x, y) ==
    Geq(x, Zero) /\ Leq(x, width(p)) /\ Geq(y, Zero) /\ Leq(y, height(p))

pixelValidSquare(p, x, y) ==
    IF Geq(x, Zero) /\ Less(x, width(p)) /\ Geq(y, Zero) /\ Less(y, height(p))
    THEN TRUE
    ELSE FALSE

\* mutant of pixelValidCircular: only a negative r1 switches the inner circle off
pixelValidCircularNegative(p, x, y) ==
    LET x2 == Mul(Sub(x, u0(p)), Sub(x, u0(p)))
        y2 == Mul(Sub(y, v0(p)), Sub(y, v0(p)))
    IN  IF Less(r1(p), Zero)
        THEN Less(Add(x2, y2), Mul(r2(p), r2(p)))
        ELSE /\ Greater(Add(x2, y2), Mul(r1(p), r1(p)))
             /\ Less(Add(x2, y2), Mul(r2(p), r2(p)))

pixelValidCircular(p, x, y) ==
    IF Leq(r1(p), Zero)
    THEN LET x2 == Mul(Sub(x, u0(p)), Sub(x, u0(p)))
             y2 == Mul(Sub(y, v0(p)), Sub(y, v0(p)))
         IN  IF Less(Add(x2, y2), Mul(r2(p), r2(p))) THEN TRUE ELSE FALSE
    ELSE LET x2 == Mul(Sub(x, u0(p)), Sub(x, u0(p)))
             y2 == Mul(Sub(y, v0(p)), Sub(y, v0(p)))
             r12 == Mul(r1(p), r1(p))
             r22 == Mul(r2(p), r2(p))
         IN  IF Greater(Add(x2, y2), r12) /\ Less(Add(x2, y2), r22)
             THEN TRUE
             ELSE FALSE

\* mutant of resizeViewport: width and height overwritten before the ratios are taken
resizeViewportLate(p, new_width, new_height) ==
    LET q == setData(setData(p, 5, new_width), 6, new_height)
        x_ratio == Div(new_width, width(q))
        y_ratio == Div(new_height, height(q))
        r_ratio == StdMin(x_ratio, y_ratio)
    IN  <<Mul(fx(p), x_ratio), Mul(fy(p), y_ratio), Mul(u0(p), x_ratio),
          Mul(v0(p), y_ratio), epsilon(p), new_width, new_height,
          Mul(r1(p), r_ratio), Mul(r2(p), r_ratio)>>

\* mutant of resizeViewport: the radii scaled by the width ratio
resizeViewportXRatio(p, new_width, new_height) ==
    LET x_ratio == Div(new_width, width(p))
        y_ratio == Div(new_height, height(p))
    IN  <<Mul(fx(p), x_ratio), Mul(fy(p), y_ratio), Mul(u0(p), x_ratio),
          Mul(v0(p), y_ratio), epsilon(p), new_width, new_height,
          Mul(r1(p), x_ratio), Mul(r2(p), x_ratio)>>

\* the parameter vector resizeViewport leaves behind
resizeViewport(p, new_width, new_height) ==
    LET x_ratio == Div(new_width, width(p))
        y_ratio == Div(new_height, height(p))
        r_ratio == StdMin(x_ratio, y_ratio)
        p1 == setData(p, 0, Mul(fx(p), x_ratio))
        p2 == setData(p1, 1, Mul(fy(p1), y_ratio))
        p3 == setData(p2, 2, Mul(u0(p2), x_ratio))
        p4 == setData(p3, 3, Mul(v0(p3), y_ratio))
        p5 == setData(p4, 7, Mul(r1(p4), r_ratio))
        p6 == setData(p5, 8, Mul(r2(p5), r_ratio))
        p7 == setData(p6, 5, new_width)
    IN  setData(p7, 6, new_height)

\* the archive after serialize: the (key, value) pairs in the order written
serialize(p) ==
    << <<"fx", data(p, 0)>>, <<"fy", data(p, 1)>>, <<"u0", data(p, 2)>>,
       <<"v0", data(p, 3)>>, <<"epsilon", data(p, 4)>>, <<"r1", data(p, 5)>>,
       <<"r2", data(p, 6)>>, <<"width", data(p, 7)>>, <<"height", data(p, 8)>> >>

(***************************************************************************)
(* Storage: an owned model holds its own parameter vector, a Map refers to  *)
(* a buffer of the caller.  mem is the content of each buffer and ref the   *)
(* buffer each model object reads and writes.                               *)
(***************************************************************************)
Owned == {"owned1", "owned2"}
MutableView == {"map1", "map2"}
ImmutableView == {"cmap1", "cmap2"}
Models == Owned \cup MutableView \cup ImmutableView
Mutable == Owned \cup MutableView

Slots == 1..4

\* the parameter vector model m reads: access()
access(m) == mem[ref[m]]

\* at most MaxOps mutating calls (setters, assignments, resizes) are made
MaxOps == 2

Half == Scalar(1, 2)

\* the record of the latest call: its name, the model, the arguments, the
\* buffers and bindings before the call, and what the call returned
Call(op, m, args, out, from) ==
    [op |-> op, m |-> m, args |-> args, pre |-> mem, preref |-> ref,
     out |-> out, from |-> from]

\* what the caller holds to pass to forward, inverse or a validity predicate
NoInput == [kind |-> "none", val |-> <<>>]
DirInput(d) == [kind |-> "dir", val |-> d]
PixInput(x, y) == [kind |-> "pix", val |-> <<x, y>>]

NoCall ==
    [op |-> "none", m |-> "none", args |-> <<>>, pre |-> <<>>,
     preref |-> <<>>, out |-> <<>>, from |-> <<>>]

(***************************************************************************)
(* Operations on the storage                                                *)
(***************************************************************************)
SetValues == {Int2S(77)}

\* one of the named setters fx(v) .. r2(v): data()[k] = v
Setter(m, k, v) ==
    /\ nops < MaxOps
    /\ mem' = [mem EXCEPT ![ref[m]] = setData(@, k, v)]
    /\ last' = Call("set", m, <<k, v>>, <<>>, <<>>)
    /\ nops' = nops + 1
    /\ UNCHANGED <<ref, hist, input>>

\* mutant of Assign: the target is made to refer to the source's buffer
AssignRebind(a, b) ==
    /\ nops < MaxOps
    /\ ref' = [ref EXCEPT ![a] = ref[b]]
    /\ last' = Call("assign", a, <<b>>, <<>>, <<>>)
    /\ hist' = <<[pre |-> access(a), args |-> <<a, b>>]>>
    /\ nops' = nops + 1
    /\ UNCHANGED <<mem, input>>

\* a = b for two model objects: access_nonconst() = other.access().
\* hist keeps the latest assignment: the target's parameters before it, and
\* the two objects.
Assign(a, b) ==
    /\ nops < MaxOps
    /\ mem' = [mem EXCEPT ![ref[a]] = mem[ref[b]]]
    /\ last' = Call("assign", a, <<b>>, <<>>, <<>>)
    /\ hist' = <<[pre |-> access(a), args |-> <<a, b>>]>>
    /\ nops' = nops + 1
    /\ UNCHANGED <<ref, input>>

\* a = vec for an owned model and a raw parameter vector
AssignVector(a, vec) ==
    /\ nops < MaxOps
    /\ mem' = [mem EXCEPT ![ref[a]] = vec]
    /\ last' = Call("assignVector", a, <<vec>>, <<>>, <<>>)
    /\ nops' = nops + 1
    /\ UNCHANGED <<ref, hist, input>>

Serialize(m) ==
    /\ last' = Call("serialize", m, <<>>, serialize(access(m)), <<>>)
    /\ UNCHANGED <<mem, ref, hist, nops, input>>

\* The owned models hold buffers 1 and 2; map1, map2 and cmap1 are views of
\* the caller's buffer 3, cmap2 a view of the caller's buffer 4.
\* buffer s is filled with nine distinct values, distinct from every other buffer's
Preset(s) == [k \in 1..NumParameters |-> Int2S(10 * s + k)]

InitStorage ==
    /\ mem = [s \in Slots |-> Preset(s)]
    /\ ref = [m \in Models |->
                 CASE m = "owned1" -> 1
                   [] m = "owned2" -> 2
                   [] m \in {"map1", "map2", "cmap1"} -> 3
                   [] m = "cmap2" -> 4]
    /\ last = NoCall
    /\ hist = <<>>
    /\ nops = 0
    /\ input = NoInput

NextStorage ==
    \/ \E m \in Mutable, k \in 0..(NumParameters - 1), v \in SetValues :
          Setter(m, k, v)
    \/ \E a \in Mutable, b \in Models : Assign(a, b)
    \/ \E a \in Owned : AssignVector(a, IdealGenericCameraModel0)
    \/ \E m \in Models : Serialize(m)

SpecStorage == InitStorage /\ [][NextStorage]_vars

(***************************************************************************)
(* Projection: forward and inverse applied to one owned model               *)
(***************************************************************************)
Cam == "owned1"

\* the one model object of the projection and viewport checks, on buffer 1
OneBinding == [m \in {Cam} |-> 1]

\* ray directions whose norm is a scalar of the model
Dirs ==
    { <<0, 0, 1>>, <<0, 0, 2>>, <<1, 2, 2>>, <<-2, 1, 2>>, <<3, 0, 4>>,
      <<2, 3, 6>>, <<2, 2, -1>>, <<0, 3, -4>>, <<-4, 0, -3>>, <<1, 0, 0>>,
      <<0, 0, -1>> }

Point(d) == <<Int2S(d[1]), Int2S(d[2]), Int2S(d[3])>>

PixelCoords == {-1, 0, 1, 2, 3, 4}

Epsilons == {Zero, Half, Scalar(3, 5), One, Int2S(2)}

Focals == { <<Int2S(2), Int2S(3)>>, <<Int2S(-1), Int2S(2)>> }

Forward ==
    /\ input.kind = "dir"
    /\ HasScalarRoot(SquaredNorm(Point(input.val)))
    /\ last' = Call("forward", Cam, <<Point(input.val)>>,
                    forward(access(Cam), Point(input.val)), <<>>)
    /\ UNCHANGED <<mem, ref, hist, nops, input>>

Pixel(v) == <<Int2S(v[1]), Int2S(v[2])>>

Inverse ==
    /\ input.kind = "pix"
    /\ last' = Call("inverse", Cam, Pixel(input.val),
                    inverse(access(Cam), Int2S(input.val[1]), Int2S(input.val[2])),
                    <<>>)
    /\ UNCHANGED <<mem, ref, hist, nops, input>>

\* inverse applied to the pixel the latest forward returned
InverseOfForward ==
    /\ last.op = "forward"
    /\ last' = Call("inverse", Cam, last.out,
                    inverse(access(Cam), last.out[1], last.out[2]),
                    last.args[1])
    /\ UNCHANGED <<mem, ref, hist, nops, input>>

InitProjection ==
    /\ \E f \in Focals, e \in Epsilons :
          mem = [s \in {1} |->
                   IdealGenericCameraModel(f[1], f[2], Int2S(2), Int2S(1), e,
                                           Int2S(4), Int2S(4), Zero, Int2S(2))]
    /\ ref = OneBinding
    /\ last = NoCall
    /\ hist = <<>>
    /\ nops = 0
    /\ input \in {DirInput(d) : d \in Dirs}
                 \cup {PixInput(x, y) : x \in PixelCoords, y \in PixelCoords}

NextProjection ==
    \/ Forward
    \/ Inverse
    \/ InverseOfForward

SpecProjection == InitProjection /\ [][NextProjection]_vars

(***************************************************************************)
(* Viewport: validity predicates and resizeViewport on one owned model      *)
(***************************************************************************)
Dims == {2, 4}

PixelValidSquare ==
    /\ input.kind = "pix"
    /\ last' = Call("pixelValidSquare", Cam, Pixel(input.val),
                    pixelValidSquare(access(Cam), Int2S(input.val[1]),
                                     Int2S(input.val[2])), <<>>)
    /\ UNCHANGED <<mem, ref, hist, nops, input>>

PixelValidCircular ==
    /\ input.kind = "pix"
    /\ last' = Call("pixelValidCircular", Cam, Pixel(input.val),
                    pixelValidCircular(access(Cam), Int2S(input.val[1]),
                                       Int2S(input.val[2])), <<>>)
    /\ UNCHANGED <<mem, ref, hist, nops, input>>

\* hist keeps, for each resize so far, the parameters before it and its arguments
ResizeViewport(w, h) ==
    /\ nops < MaxOps
    /\ mem' = [mem EXCEPT ![ref[Cam]] = resizeViewport(@, Int2S(w), Int2S(h))]
    /\ last' = Call("resizeViewport", Cam, <<Int2S(w), Int2S(h)>>, <<>>, <<>>)
    /\ hist' = Append(hist, [pre |-> access(Cam), args |-> <<Int2S(w), Int2S(h)>>])
    /\ nops' = nops + 1
    /\ UNCHANGED <<ref, input>>

Centres == { <<2, 2>>, <<2, 1>> }
Sizes == { <<4, 4>>, <<4, 2>> }
Radii == { <<0, 2>>, <<1, 2>>, <<-1, 1>>, <<0, 0>> }

ViewportModels ==
    { IdealGenericCameraModel(Int2S(2), Int2S(3), Int2S(c[1]), Int2S(c[2]), Half,
                              Int2S(z[1]), Int2S(z[2]), Int2S(r[1]), Int2S(r[2])) :
        c \in Centres, z \in Sizes, r \in Radii }
    \cup { IdealGenericCameraModel4(Int2S(2), Int2S(3), Int2S(2), Int2S(2)),
           IdealGenericCameraModel0 }

InitViewport ==
    /\ \E p \in ViewportModels : mem = [s \in {1} |-> p]
    /\ ref = OneBinding
    /\ last = NoCall
    /\ hist = <<>>
    /\ nops = 0
    /\ input \in {PixInput(x, y) : x \in PixelCoords, y \in PixelCoords}

NextViewport ==
    \/ PixelValidSquare
    \/ PixelValidCircular
    \/ \E w \in Dims, h \in Dims : ResizeViewport(w, h)

SpecViewport == InitViewport /\ [][NextViewport]_vars

(***************************************************************************)
(* Properties of the validity predicates and of resizeViewport              *)
(* (checked under SpecViewport)                                             *)
(***************************************************************************)
\* the model the latest call was made on, as it was before the call
Before == last.pre[last.preref[last.m]]

\* the squared distance of the latest call's pixel to the principal point
Dist2 ==
    LET dx == Sub(last.args[1], u0(Before))
        dy == Sub(last.args[2], v0(Before))
    IN  Add(Mul(dx, dx), Mul(dy, dy))

Sq(a) == Mul(a, a)

\* C2: pixelValidCircular(x,y) is true iff d2 < r2^2 when r1 <= 0 (r1 = 0 and
\* negative r1 included), and iff r1^2 < d2 < r2^2 when r1 > 0; both bounds
\* are strict, so a pixel exactly on either circle is invalid.
C2_PixelValidCircular ==
    last.op = "pixelValidCircular" =>
        /\ Leq(r1(Before), Zero) =>
              (last.out <=> Less(Dist2, Sq(r2(Before))))
        /\ Greater(r1(Before), Zero) =>
              (last.out <=> (Less(Sq(r1(Before)), Dist2)
                               /\ Less(Dist2, Sq(r2(Before)))))
        /\ (Dist2 = Sq(r2(Before)) \/ (Greater(r1(Before), Zero)
                                         /\ Dist2 = Sq(r1(Before))))
              => ~last.out

\* a pixel exactly on the inner circle of an annulus was found invalid
C2_Witness ==
    /\ last.op = "pixelValidCircular"
    /\ Greater(r1(Before), Zero)
    /\ Less(r1(Before), r2(Before))
    /\ Dist2 = Sq(r1(Before))
    /\ ~last.out

\* x < w for an integer pixel coordinate x (held as x/1) and a finite scalar w
IntBelow(x, w) == x[1] * w[2] < w[1]

\* C3: pixelValidSquare(x,y) is true iff 0 <= x < width and 0 <= y < height:
\* x = 0 is valid, x = width and y = height are invalid, and a model with
\* width = 0 or height = 0 has no valid pixel.
C3_PixelValidSquare ==
    last.op = "pixelValidSquare" =>
        /\ Finite(width(Before)) /\ Finite(height(Before))
        /\ last.out <=> (/\ 0 <= last.args[1][1]
                         /\ IntBelow(last.args[1], width(Before))
                         /\ 0 <= last.args[2][1]
                         /\ IntBelow(last.args[2], height(Before)))
        /\ (last.args[1] = width(Before) \/ last.args[2] = height(Before))
              => ~last.out
        /\ (width(Before) = Zero \/ height(Before) = Zero) => ~last.out

\* the pixel (width, 0) of a model of positive size was found invalid
C3_Witness ==
    /\ last.op = "pixelValidSquare"
    /\ Greater(width(Before), Zero) /\ Greater(height(Before), Zero)
    /\ last.args[1] = width(Before)
    /\ last.args[2] = Zero
    /\ ~last.out

\* the smaller of two finite scalars
MinOf(a, b) == IF Less(a, b) THEN a ELSE b

\* the model the latest resizeViewport was called on, after the call
After == mem[ref[last.m]]

\* C4: on a model of positive width w1 and height h1, resizeViewport(w2,h2)
\* takes its ratios from the width and height stored before the call and
\* leaves fx = fx_old*(w2/w1), fy = fy_old*(h2/h1), u0 = u0_old*(w2/w1),
\* v0 = v0_old*(h2/h1), r1 = r1_old*min(w2/w1,h2/h1),
\* r2 = r2_old*min(w2/w1,h2/h1), width = w2, height = h2, epsilon unchanged.
C4_ResizeViewport ==
    (/\ last.op = "resizeViewport"
     /\ Greater(width(Before), Zero) /\ Greater(height(Before), Zero))
    => LET xr == Div(last.args[1], width(Before))
           yr == Div(last.args[2], height(Before))
       IN  /\ fx(After) = Mul(fx(Before), xr)
           /\ fy(After) = Mul(fy(Before), yr)
           /\ u0(After) = Mul(u0(Before), xr)
           /\ v0(After) = Mul(v0(Before), yr)
           /\ r1(After) = Mul(r1(Before), MinOf(xr, yr))
           /\ r2(After) = Mul(r2(Before), MinOf(xr, yr))
           /\ width(After) = last.args[1]
           /\ height(After) = last.args[2]
           /\ epsilon(After) = epsilon(Before)

\* an anisotropic resize of a model with a nonzero mask has been made
C4_Witness ==
    /\ last.op = "resizeViewport"
    /\ FiniteParams(Before)
    /\ Greater(width(Before), Zero) /\ Greater(height(Before), Zero)
    /\ Div(last.args[1], width(Before)) # Div(last.args[2], height(Before))
    /\ width(After) # width(Before)
    /\ r2(Before) # Zero /\ r1(Before) # Zero

\* C6: resizeViewport yields finite values for all nine parameters on every
\* model with width >= 0 and height >= 0, a model built with the
\* four-argument constructor (width = height = 0) included.
C6_ResizeTotal ==
    (/\ last.op = "resizeViewport"
     /\ FiniteParams(Before)
     /\ Geq(width(Before), Zero) /\ Geq(height(Before), Zero))
    => FiniteParams(After)

\* the circular mask of radius r2 around (u0, v0) lies within the sensor
MaskInside(p) ==
    /\ Geq(Sub(u0(p), r2(p)), Zero)
    /\ Leq(Add(u0(p), r2(p)), width(p))
    /\ Geq(Sub(v0(p), r2(p)), Zero)
    /\ Leq(Add(v0(p), r2(p)), height(p))

\* C9: if before resizeViewport(w2,h2), w2,h2 > 0, r2 >= 0, width, height > 0
\* and the disk of radius r2 around (u0,v0) lies within [0,width] x [0,height],
\* then the same holds after the call, whatever the two axis ratios are.
C9_MaskStaysInside ==
    (/\ last.op = "resizeViewport"
     /\ Greater(last.args[1], Zero) /\ Greater(last.args[2], Zero)
     /\ Geq(r2(Before), Zero)
     /\ Greater(width(Before), Zero) /\ Greater(height(Before), Zero)
     /\ MaskInside(Before))
    => MaskInside(After)

\* a mask touching the sensor's border went through an anisotropic resize
C9_Witness ==
    /\ last.op = "resizeViewport"
    /\ Greater(r2(Before), Zero)
    /\ Greater(width(Before), Zero) /\ Greater(height(Before), Zero)
    /\ MaskInside(Before)
    /\ Add(u0(Before), r2(Before)) = width(Before)
    /\ Div(last.args[1], width(Before)) # Div(last.args[2], height(Before))
    /\ MaskInside(After)

\* the latest two calls were resizeViewport(w2,h2) on a finite model of
\* positive size w1 x h1 and then resizeViewport(w1,h1)
RoundTrip ==
    /\ Len(hist) >= 2
    /\ last.op = "resizeViewport"
    /\ LET p0 == hist[Len(hist) - 1].pre
       IN  /\ FiniteParams(p0)
           /\ Greater(width(p0), Zero) /\ Greater(height(p0), Zero)
           /\ Greater(hist[Len(hist) - 1].args[1], Zero)
           /\ Greater(hist[Len(hist) - 1].args[2], Zero)
           /\ hist[Len(hist)].args = <<width(p0), height(p0)>>

Start == hist[Len(hist) - 1].pre

SameRatios ==
    Div(hist[Len(hist) - 1].args[1], width(Start))
        = Div(hist[Len(hist) - 1].args[2], height(Start))

AbsS(a) == IF Less(a, Zero) THEN Neg(a) ELSE a

RoundTripRestoresIntrinsics ==
    /\ fx(After) = fx(Start) /\ fy(After) = fy(Start)
    /\ u0(After) = u0(Start) /\ v0(After) = v0(Start)
    /\ width(After) = width(Start) /\ height(After) = height(Start)
    /\ epsilon(After) = epsilon(Start)

RoundTripShrinksRadii ==
    ~SameRatios =>
        /\ r1(Start) # Zero => Less(AbsS(r1(After)), AbsS(r1(Start)))
        /\ r2(Start) # Zero => Less(AbsS(r2(After)), AbsS(r2(Start)))

\* C10 as stated: the resize round trip restores fx, fy, u0, v0, width,
\* height and epsilon, restores r1 and r2 iff w2/w1 = h2/h1, and when the
\* ratios differ leaves nonzero radii strictly smaller in magnitude.
C10_RoundTripAsStated ==
    RoundTrip =>
        /\ RoundTripRestoresIntrinsics
        /\ (r1(After) = r1(Start) /\ r2(After) = r2(Start)) <=> SameRatios
        /\ RoundTripShrinksRadii

\* C10 amended: r1 and r2 are both restored iff w2/w1 = h2/h1 or both radii
\* are zero; the rest as stated.
C10_RoundTrip ==
    RoundTrip =>
        /\ RoundTripRestoresIntrinsics
        /\ (r1(After) = r1(Start) /\ r2(After) = r2(Start))
              <=> (SameRatios \/ (r1(Start) = Zero /\ r2(Start) = Zero))
        /\ RoundTripShrinksRadii

\* an anisotropic round trip of a model with nonzero radii has been made
C10_Witness ==
    /\ RoundTrip
    /\ ~SameRatios
    /\ r1(Start) # Zero /\ r2(Start) # Zero
    /\ Less(AbsS(r2(After)), AbsS(r2(Start)))

(***************************************************************************)
(* Properties of forward and inverse (checked under SpecProjection)         *)
(***************************************************************************)
Dot(u, v) == Add(Add(Mul(u[1], v[1]), Mul(u[2], v[2])), Mul(u[3], v[3]))

\* u and v are finite, nonzero and normalize to the same unit vector:
\* their cross product vanishes and their dot product is positive
SameDirection(u, v) ==
    /\ \A k \in 1..3 : Finite(u[k]) /\ Finite(v[k])
    /\ Sub(Mul(u[2], v[3]), Mul(u[3], v[2])) = Zero
    /\ Sub(Mul(u[3], v[1]), Mul(u[1], v[3])) = Zero
    /\ Sub(Mul(u[1], v[2]), Mul(u[2], v[1])) = Zero
    /\ Greater(Dot(u, v), Zero)

\* the latest call is inverse(forward(d)) on a model with nonzero fx, fy and
\* epsilon in [0,1)
IsRoundTrip ==
    /\ last.op = "inverse"
    /\ last.from # <<>>
    /\ FiniteParams(Before)
    /\ fx(Before) # Zero /\ fy(Before) # Zero
    /\ Geq(epsilon(Before), Zero) /\ Less(epsilon(Before), One)

\* the point inverse returned is a point of scalars pointing along d
RoundTripRecovers ==
    /\ last.out.irr = <<Zero, Zero, Zero>>
    /\ SameDirection(last.out.rat, last.from)

\* d.z + epsilon * |d| > 0 for the direction d of the round trip
InFront ==
    Greater(Add(last.from[3],
                Mul(epsilon(Before), Sqrt(SquaredNorm(last.from)))), Zero)

\* C1 as stated: for every epsilon in [0,1) and every nonzero direction d,
\* those with d.z + epsilon*|d| <= 0 included, inverse(forward(d)) normalizes
\* to the same direction as d.
C1_RoundTripAsStated == IsRoundTrip => RoundTripRecovers

\* C1 amended: the same for every nonzero d with d.z + epsilon*|d| > 0.
C1_RoundTrip == (IsRoundTrip /\ InFront) => RoundTripRecovers

\* a direction with negative z, still in front of the projection centre, and
\* not of unit length, was recovered
C1_Witness ==
    /\ IsRoundTrip
    /\ InFront
    /\ Less(last.from[3], Zero)
    /\ SquaredNorm(last.from) # One
    /\ epsilon(Before) # Zero
    /\ RoundTripRecovers

\* the squared norm of the point inverse returned, as a + b * sqrt(rad)
Norm2 ==
    LET u == last.out.rat
        w == last.out.irr
    IN  [a |-> Add(Dot(u, u), Mul(last.out.rad, Dot(w, w))),
         b |-> Mul(Int2S(2), Dot(u, w))]

\* the latest call is inverse(x,y) at a finite pixel on a model with nonzero
\* fx, fy and epsilon in [0,1]
IsInverse ==
    /\ last.op = "inverse"
    /\ Finite(last.args[1]) /\ Finite(last.args[2])
    /\ FiniteParams(Before)
    /\ fx(Before) # Zero /\ fy(Before) # Zero
    /\ Geq(epsilon(Before), Zero) /\ Leq(epsilon(Before), One)

\* C8: for every epsilon in [0,1], nonzero fx, fy and every pixel, the point
\* inverse(x,y) returns has squared norm exactly 1 with no normalization
\* step; in particular inverse(u0,v0) is (0,0,1).
C8_InverseOnSphere ==
    IsInverse =>
        /\ Norm2.a = One
        /\ Norm2.b = Zero
        /\ (last.args = <<u0(Before), v0(Before)>>) =>
              /\ last.out.rat = <<Zero, Zero, One>>
              /\ last.out.irr = <<Zero, Zero, Zero>>

\* inverse was called, with 0 < epsilon < 1, at a pixel where the root is
\* irrational
C8_Witness ==
    /\ IsInverse
    /\ Greater(epsilon(Before), Zero) /\ Less(epsilon(Before), One)
    /\ last.out.irr[3] # Zero
    /\ Norm2.a = One
    /\ Norm2.b = Zero

(***************************************************************************)
(* Properties of the storage (checked under SpecStorage)                    *)
(***************************************************************************)
SerializedKeys ==
    <<"fx", "fy", "u0", "v0", "epsilon", "r1", "r2", "width", "height">>

\* the value the accessor of the given name returns
ByName(p, key) ==
    CASE key = "fx" -> fx(p)
      [] key = "fy" -> fy(p)
      [] key = "u0" -> u0(p)
      [] key = "v0" -> v0(p)
      [] key = "epsilon" -> epsilon(p)
      [] key = "r1" -> r1(p)
      [] key = "r2" -> r2(p)
      [] key = "width" -> width(p)
      [] key = "height" -> height(p)

\* C5: the serialized record has the keys fx, fy, u0, v0, epsilon, r1, r2,
\* width, height in this order, and the value under each key is the value
\* the accessor of the same name returns.
C5_SerializedByName ==
    last.op = "serialize" =>
        /\ [k \in 1..Len(last.out) |-> last.out[k][1]] = SerializedKeys
        /\ \A k \in 1..Len(last.out) :
              last.out[k][2] = ByName(Before, last.out[k][1])

\* the two objects of the latest assignment a = b
Target == hist[1].args[1]
Source == hist[1].args[2]

\* C7: a = b (a Owned or MutableView, b any variant) copies all nine
\* parameters by value: afterwards a reads what b reads, b and every buffer
\* but a's are unchanged, a refers to the storage it referred to before, and
\* a later setter call on one of the two leaves the other unchanged unless
\* both refer to the same buffer.
C7_AssignCopies ==
    /\ last.op = "assign" =>
          /\ access(Target) = last.pre[last.preref[Source]]
          /\ access(Source) = last.pre[last.preref[Source]]
          /\ \A k \in 0..(NumParameters - 1) :
                data(access(Target), k) = data(access(Source), k)
          /\ ref = last.preref
          /\ \A s \in Slots : s # last.preref[Target] => mem[s] = last.pre[s]
    /\ (last.op = "set" /\ hist # <<>> /\ ref[Target] # ref[Source]) =>
          /\ ref = last.preref
          /\ last.m = Target => access(Source) = last.pre[ref[Source]]
          /\ last.m = Source => access(Target) = last.pre[ref[Target]]
          /\ data(access(last.m), last.args[1]) = last.args[2]

\* after map = cmap over two different buffers, a setter called on the
\* target changed the target and left the source as it was
C7_Witness ==
    /\ last.op = "set"
    /\ hist # <<>>
    /\ Target \in MutableView /\ Source \in ImmutableView
    /\ ref[Target] # ref[Source]
    /\ last.m = Target
    /\ last.pre[ref[Target]] = last.pre[ref[Source]]
    /\ access(Target) # access(Source)
    /\ access(Source) = last.pre[ref[Source]]

=============================================================================
